---- MODULE Spec2Model ----
(***************************************************************************)
(* port-manager: the interactive session of src/main.rs (struct App and    *)
(* run_app) together with the persisted filter configuration of            *)
(* src/config.rs.  The operating system (lsof, kill, the config file) is   *)
(* the environment: every call to it may succeed or fail, and every scan   *)
(* may report a different set of listening sockets.                        *)
(*                                                                         *)
(* Strings are sequences of one-character strings, so that trim() and      *)
(* str::contains() are computed and not assumed.  Option<usize> is the     *)
(* empty sequence (None) or a one-element sequence (Some(i)); indices are  *)
(* 0-based as in the source.                                               *)
(***************************************************************************)
EXTENDS Integers, Sequences, FiniteSets, TLC

VARIABLES
    app,      \* struct App (main.rs:43-52)
    disk,     \* the Config last written to config.json
    pc,       \* position of run_app: "init", "loop" or "exited"
    intent,   \* the intent the last iteration of the loop processed
    outcome,  \* Result of the last handler: "Ok" or the failure it returned
    log,      \* calls the last handler made to the operating system
    pre       \* selections and popup input before the last handler

vars == <<app, disk, pc, intent, outcome, log, pre>>

----------------------------------------------------------------------------
(* Bounds of the model *)

MaxScan == 2      \* rows one lsof run may report
MaxInput == 1     \* characters typed into the add-filter popup
MaxFilters == 2   \* entries of filtered_process_names
MaxRaw == 3       \* rows of the lsof run the filter engine is applied to

----------------------------------------------------------------------------
(* Option<usize> *)

None == <<>>
Some(i) == <<i>>
is_some(o) == o # <<>>
is_none(o) == o = <<>>
unwrap(o) == o[1]

(* usize::saturating_sub *)
saturating_sub(a, b) == IF a >= b THEN a - b ELSE 0

----------------------------------------------------------------------------
(* Strings *)

Browser == <<"B", "r", "o", "w", "s", "e", "r">>
ControlCE == <<"C", "o", "n", "t", "r", "o", "l", "C", "E">>
HelperBrowserX ==
    <<"H", "e", "l", "p", "e", "r", "B", "r", "o", "w", "s", "e", "r", "X">>
browser == <<"b", "r", "o", "w", "s", "e", "r">>
node == <<"n", "o", "d", "e">>

Whitespace == {" ", "\t", "\n"}

(* str::contains: f occurs in s as a contiguous, case-sensitive substring *)
contains(s, f) ==
    \E k \in 0..(Len(s) - Len(f)) : SubSeq(s, k + 1, k + Len(f)) = f

RECURSIVE trim_start(_)
trim_start(s) ==
    IF s # <<>> /\ Head(s) \in Whitespace THEN trim_start(Tail(s)) ELSE s

RECURSIVE trim_end(_)
trim_end(s) ==
    IF s # <<>> /\ s[Len(s)] \in Whitespace
    THEN trim_end(SubSeq(s, 1, Len(s) - 1))
    ELSE s

(* str::trim *)
trim(s) == trim_end(trim_start(s))

(* Vec<String>::contains: equality with some element *)
vec_contains(v, x) == \E k \in 1..Len(v) : v[k] = x

(* Vec::get with a 0-based index: is the index in range *)
in_range(v, i) == i < Len(v)

----------------------------------------------------------------------------
(* config.rs *)

DefaultMinPort == 1024
DefaultMaxPort == 49151

(* impl Default for Config *)
default_config ==
    [min_port |-> DefaultMinPort,
     max_port |-> DefaultMaxPort,
     filtered_process_names |-> <<Browser, ControlCE>>]

(* A world is the part of the state a handler can change: the App, the    *)
(* config file and the log of operating-system calls.  A handler returns  *)
(* the world it leaves behind and its Result.                             *)
Ok(w) == [w |-> w, err |-> "Ok"]
Err(w, e) == [w |-> w, err |-> e]

Call(op, arg, ok) == [op |-> op, arg |-> arg, ok |-> ok]

(* Variant: a failed write is dropped and Ok returned *)
save_swallowing_failure(w, env) ==
    IF env.save_ok
    THEN Ok([w EXCEPT !.disk = w.app.config,
                      !.log = Append(@, Call("save", w.app.config.filtered_process_names, TRUE))])
    ELSE Ok([w EXCEPT !.log = Append(@, Call("save", w.app.config.filtered_process_names, FALSE))])

(* Config::save: writes the whole in-memory Config, or fails *)
save(w, env) ==
    IF env.save_ok
    THEN Ok([w EXCEPT !.disk = w.app.config,
                      !.log = Append(@, Call("save", w.app.config.filtered_process_names, TRUE))])
    ELSE Err([w EXCEPT !.log = Append(@, Call("save", w.app.config.filtered_process_names, FALSE))],
             "PersistenceFailure")

(* Variant: pushes without the contains check *)
add_filtered_process_unchecked(w, process_name, env) ==
    save([w EXCEPT !.app.config.filtered_process_names =
                       Append(@, process_name)], env)

(* Config::add_filtered_process *)
add_filtered_process(w, process_name, env) ==
    IF ~vec_contains(w.app.config.filtered_process_names, process_name)
    THEN save([w EXCEPT !.app.config.filtered_process_names =
                            Append(@, process_name)], env)
    ELSE Ok(w)

(* Vec::retain(|name| name != process_name) *)
retain_ne(v, process_name) ==
    LET keep(name) == name # process_name IN SelectSeq(v, keep)

(* Config::remove_filtered_process *)
remove_filtered_process(w, process_name, env) ==
    save([w EXCEPT !.app.config.filtered_process_names =
                       retain_ne(@, process_name)], env)

----------------------------------------------------------------------------
(* main.rs: the scanner *)

PortProcess(pid, name, port, command) ==
    [pid |-> pid, name |-> name, port |-> port, command |-> command]

RECURSIVE insert_by_port_before_equal(_, _)
(* Variant: p goes before the elements of equal key (an unstable sort)    *)
insert_by_port_before_equal(s, p) ==
    IF s = <<>> THEN <<p>>
    ELSE IF p.port <= Head(s).port THEN <<p>> \o s
    ELSE <<Head(s)>> \o insert_by_port_before_equal(Tail(s), p)

RECURSIVE insert_by_port(_, _)
(* p goes after every element whose key is <= its own: equal keys keep    *)
(* their order of arrival                                                 *)
insert_by_port(s, p) ==
    IF s = <<>> THEN <<p>>
    ELSE IF p.port < Head(s).port THEN <<p>> \o s
    ELSE <<Head(s)>> \o insert_by_port(Tail(s), p)

RECURSIVE sort_from(_, _)
sort_from(acc, rest) ==
    IF rest = <<>> THEN acc
    ELSE sort_from(insert_by_port(acc, Head(rest)), Tail(rest))

(* Vec::sort_by_key(|p| p.port): a stable sort *)
sort_by_key(v) == sort_from(<<>>, v)

(* str::split_whitespace: the maximal runs of non-whitespace characters; *)
(* cur is the run being read, acc the runs already closed                 *)
RECURSIVE split_whitespace_from(_, _, _)
split_whitespace_from(s, cur, acc) ==
    IF s = <<>> THEN (IF cur = <<>> THEN acc ELSE Append(acc, cur))
    ELSE IF Head(s) \in Whitespace
    THEN split_whitespace_from(
             Tail(s), <<>>, IF cur = <<>> THEN acc ELSE Append(acc, cur))
    ELSE split_whitespace_from(Tail(s), Append(cur, Head(s)), acc)

split_whitespace(s) == split_whitespace_from(s, <<>>, <<>>)

(* str::split(':').last(): the piece after the last ':', the whole string *)
(* if it holds none; cur is the piece being read                          *)
RECURSIVE split_last_from(_, _)
split_last_from(s, cur) ==
    IF s = <<>> THEN cur
    ELSE IF Head(s) = ":" THEN split_last_from(Tail(s), <<>>)
    ELSE split_last_from(Tail(s), Append(cur, Head(s)))

split_last(s) == split_last_from(s, <<>>)

Digits == <<"0", "1", "2", "3", "4", "5", "6", "7", "8", "9">>

is_digit(c) == \E k \in 1..10 : Digits[k] = c
to_digit(c) == (CHOOSE k \in 1..10 : Digits[k] = c) - 1

U16Max == 65535
U32MaxDiv10 == 429496729   \* u32::MAX = 4294967295 = 10 * U32MaxDiv10 + 5
U32MaxMod10 == 5

(* The digit loop of <unsigned as FromStr>::from_str: a character that is *)
(* no digit, or a value above max_div10 * 10 + max_mod10, is an Err       *)
RECURSIVE parse_digits(_, _, _, _)
parse_digits(s, acc, max_div10, max_mod10) ==
    IF s = <<>> THEN Some(acc)
    ELSE IF ~is_digit(Head(s)) THEN None
    ELSE IF acc > max_div10
            \/ (acc = max_div10 /\ to_digit(Head(s)) > max_mod10)
    THEN None
    ELSE parse_digits(Tail(s), acc * 10 + to_digit(Head(s)),
                      max_div10, max_mod10)

(* from_str of an unsigned type: empty, or a sign alone, is an Err; one   *)
(* leading '+' is accepted and '-' is not                                 *)
parse_unsigned(s, max_div10, max_mod10) ==
    IF s = <<>> \/ s = <<"+">> \/ s = <<"-">> THEN None
    ELSE IF Head(s) = "+" THEN parse_digits(Tail(s), 0, max_div10, max_mod10)
    ELSE parse_digits(s, 0, max_div10, max_mod10)

(* Variant: the port is parsed as a u32 *)
parse_u16_as_u32(s) == parse_unsigned(s, U32MaxDiv10, U32MaxMod10)

(* str::parse::<u16> *)
parse_u16(s) == parse_unsigned(s, U16Max \div 10, U16Max % 10)

(* str::parse::<u32> *)
parse_u32(s) == parse_unsigned(s, U32MaxDiv10, U32MaxMod10)

(* u32::to_string and u16::to_string *)
RECURSIVE to_string(_)
to_string(n) ==
    IF n < 10 THEN <<Digits[n + 1]>>
    ELSE Append(to_string(n \div 10), Digits[(n % 10) + 1])

(* What lsof prints: a header, then one row per listening socket with the *)
(* columns COMMAND PID USER FD TYPE DEVICE SIZE/OFF NODE NAME and the     *)
(* state of the socket.                                                   *)
Header ==
    <<"C", "O", "M", "M", "A", "N", "D", " ", "P", "I", "D", " ", "U", "S",
      "E", "R", " ", "F", "D", " ", "T", "Y", "P", "E", " ", "D", "E", "V",
      "I", "C", "E", " ", "S", "I", "Z", "E", "/", "O", "F", "F", " ", "N",
      "O", "D", "E", " ", "N", "A", "M", "E">>

(* The columns USER to NODE of a row, with the blanks around them *)
Columns ==
    <<" ", "u", " ", "3", "u", " ", "I", "P", "v", "4", " ", "0", "x", "1",
      " ", "0", "t", "0", " ", "T", "C", "P", " ">>

Listen == <<" ", "(", "L", "I", "S", "T", "E", "N", ")">>

lsof_text(name, pid_str, addr) ==
    name \o <<" ">> \o pid_str \o Columns \o addr \o Listen

(* The row of a socket listening on every address of a port *)
lsof_row(name, pid, port) ==
    lsof_text(name, to_string(pid), <<"*", ":">> \o to_string(port))

(* What ps prints for a process: its command line and a newline *)
PsText == <<"/", "n", "\n">>

PsAnswers == [failing |-> {}, stdout |-> PsText]

(* The listening sockets the host may have.  One process may hold several *)
(* sockets on one port (IPv4 and IPv6), so a row may repeat.              *)
Universe ==
    {lsof_row(HelperBrowserX, 1, 3000),
     lsof_row(browser, 2, 8080)}

(* Rows that bound the port range of the default Config and tie on a port *)
FilterUniverse ==
    {lsof_row(HelperBrowserX, 1, 3000),
     lsof_row(browser, 2, 3000),
     lsof_row(node, 3, DefaultMinPort),
     lsof_row(node, 4, DefaultMinPort - 1),
     lsof_row(node, 5, DefaultMaxPort),
     lsof_row(node, 6, DefaultMaxPort + 1)}

(* What ps meets when the process of pid 3 is looked up and ps cannot be  *)
(* run                                                                    *)
PsFailing == [failing |-> {3}, stdout |-> PsText]

PsChoices == {PsAnswers, PsFailing}

(* Lines lsof may print after the header: rows of IPv4 and IPv6 sockets,  *)
(* rows at both ends of the port range of a u16, a row padded with blanks *)
(* and a tab, and rows that are cut short or carry no number where one is *)
(* expected                                                               *)
ScanLines ==
    {Header,
     lsof_row(node, 3, 3000),
     lsof_text(browser, <<"4">>, <<"[", ":", ":", "1", "]", ":", "3", "0", "0", "0">>),
     lsof_text(node \o <<" ", "\t">>, <<"5">>, <<"*", ":", "0">>),
     lsof_row(node, 6, U16Max),
     lsof_row(node, 6, U16Max + 1),
     lsof_text(node, <<"x", "7">>, <<"*", ":", "3", "0", "0", "0">>),
     lsof_text(node, <<"7">>, <<"*", ":", "*">>),
     node \o <<" ">> \o <<"8">> \o Columns}

Lines == {Header} \cup Universe \cup FilterUniverse \cup ScanLines

(* The command block: ps is asked for the command of pid; its output is   *)
(* trimmed, and a ps that cannot be run gives the empty string            *)
command_of(pid, ps) ==
    IF pid \notin ps.failing THEN trim(ps.stdout) ELSE <<>>

(* The body of the for loop: the bindings one line pushes, none or one.   *)
(* A function of the line and of what ps answers, over the lines the      *)
(* environment prints.                                                    *)
parse_line[line \in Lines, ps \in PsChoices] ==
    LET parts == split_whitespace(line)
    IN  IF Len(parts) >= 9
        THEN LET process_name == parts[1]
                 pid_str == parts[2]
                 addr_port == parts[9]
                 port_str == split_last(addr_port)
                 pid == parse_u32(pid_str)
                 port == parse_u16(port_str)
             IN  IF is_some(pid) /\ is_some(port)
                 THEN <<PortProcess(unwrap(pid), process_name, unwrap(port),
                                    command_of(unwrap(pid), ps))>>
                 ELSE <<>>
        ELSE <<>>

(* The for loop over the lines *)
RECURSIVE parse_lines(_, _)
parse_lines(lines, ps) ==
    IF lines = <<>> THEN <<>>
    ELSE parse_line[Head(lines), ps] \o parse_lines(Tail(lines), ps)

(* Iterator::skip(1) *)
skip_header(lines) == IF lines = <<>> THEN <<>> ELSE Tail(lines)

(* get_port_processes: the lsof run either fails (cannot be spawned, exits *)
(* with a non-success status, prints bytes that are not UTF-8) or prints   *)
(* a header and rows; the bindings parsed from the rows, in the order of   *)
(* the rows, are then sorted.  calls records what the commands printed and *)
(* what the loop found.                                                    *)
get_port_processes(env) ==
    LET printed == [stdout |-> env.lsof.stdout, ps |-> env.lsof.ps]
        found == parse_lines(skip_header(env.lsof.stdout), env.lsof.ps)
    IN  IF env.lsof.status = "ok"
        THEN [err |-> "Ok", val |-> sort_by_key(found),
              calls |-> <<Call("lsof", printed, TRUE),
                          Call("scan", found, TRUE)>>]
        ELSE [err |-> "ScanFailure", val |-> <<>>,
              calls |-> <<Call("lsof", printed, FALSE),
                          Call("scan", <<>>, FALSE)>>]

(* kill_process *)
kill_process(w, pid, env) ==
    IF env.kill_ok
    THEN Ok([w EXCEPT !.log = Append(@, Call("kill", <<pid>>, TRUE))])
    ELSE Err([w EXCEPT !.log = Append(@, Call("kill", <<pid>>, FALSE))],
             "KillFailure")

----------------------------------------------------------------------------
(* main.rs: impl App *)

(* App::new, given the Config that Config::load returned *)
new_app(cfg) ==
    [port_processes |-> <<>>,
     selected_idx |-> None,
     should_quit |-> FALSE,
     config |-> cfg,
     current_view |-> "ProcessList",
     filter_selected_idx |-> None,
     show_add_filter_popup |-> FALSE,
     add_filter_input |-> <<>>]

(* Variant: the upper end of the port range is excluded *)
passes_filter_exclusive_max(cfg, process) ==
    LET port_in_range ==
            process.port >= cfg.min_port /\ process.port < cfg.max_port
        name_not_filtered ==
            ~\E k \in 1..Len(cfg.filtered_process_names) :
                contains(process.name, cfg.filtered_process_names[k])
    IN  port_in_range /\ name_not_filtered

(* The closure of refresh_processes: port in range and name not filtered *)
passes_filter(cfg, process) ==
    LET port_in_range ==
            process.port >= cfg.min_port /\ process.port <= cfg.max_port
        name_not_filtered ==
            ~\E k \in 1..Len(cfg.filtered_process_names) :
                contains(process.name, cfg.filtered_process_names[k])
    IN  port_in_range /\ name_not_filtered

(* The filter pipeline of refresh_processes *)
filter_processes(cfg, all_processes) ==
    LET keep(process) == passes_filter(cfg, process)
    IN  SelectSeq(all_processes, keep)

(* Variant: every refresh of a non-empty list selects its first row *)
refresh_processes_resetting(w, env) ==
    LET scanned == get_port_processes(env)
        w1 == [w EXCEPT !.log = @ \o scanned.calls]
        listed == filter_processes(w.app.config, scanned.val)
        sel == IF listed # <<>> THEN Some(0) ELSE w.app.selected_idx
        fsel == IF w.app.config.filtered_process_names # <<>>
                   /\ is_none(w.app.filter_selected_idx)
                THEN Some(0) ELSE w.app.filter_selected_idx
    IN  IF scanned.err # "Ok" THEN Err(w1, scanned.err)
        ELSE Ok([w1 EXCEPT !.app.port_processes = listed,
                           !.app.selected_idx = sel,
                           !.app.filter_selected_idx = fsel])

(* Variant: a failed scan empties the list before the failure returns *)
refresh_processes_clearing_on_failure(w, env) ==
    LET scanned == get_port_processes(env)
        w1 == [w EXCEPT !.log = @ \o scanned.calls]
        listed == filter_processes(w.app.config, scanned.val)
        sel == IF listed # <<>> /\ is_none(w.app.selected_idx)
               THEN Some(0) ELSE w.app.selected_idx
        fsel == IF w.app.config.filtered_process_names # <<>>
                   /\ is_none(w.app.filter_selected_idx)
                THEN Some(0) ELSE w.app.filter_selected_idx
    IN  IF scanned.err # "Ok"
        THEN Err([w1 EXCEPT !.app.port_processes = <<>>], scanned.err)
        ELSE Ok([w1 EXCEPT !.app.port_processes = listed,
                           !.app.selected_idx = sel,
                           !.app.filter_selected_idx = fsel])

(* Variant: a None selection is left as it is *)
refresh_processes_without_default_selection(w, env) ==
    LET scanned == get_port_processes(env)
        w1 == [w EXCEPT !.log = @ \o scanned.calls]
        listed == filter_processes(w.app.config, scanned.val)
    IN  IF scanned.err # "Ok" THEN Err(w1, scanned.err)
        ELSE Ok([w1 EXCEPT !.app.port_processes = listed])

(* App::refresh_processes *)
refresh_processes(w, env) ==
    LET scanned == get_port_processes(env)
        w1 == [w EXCEPT !.log = @ \o scanned.calls]
        listed == filter_processes(w.app.config, scanned.val)
        sel == IF listed # <<>> /\ is_none(w.app.selected_idx)
               THEN Some(0) ELSE w.app.selected_idx
        fsel == IF w.app.config.filtered_process_names # <<>>
                   /\ is_none(w.app.filter_selected_idx)
                THEN Some(0) ELSE w.app.filter_selected_idx
    IN  IF scanned.err # "Ok" THEN Err(w1, scanned.err)
        ELSE Ok([w1 EXCEPT !.app.port_processes = listed,
                           !.app.selected_idx = sel,
                           !.app.filter_selected_idx = fsel])

(* Variant: the toggle only ever leaves the ProcessList view *)
toggle_view_one_way(w) ==
    [w EXCEPT !.app.current_view = "FilterManagement"]

(* App::toggle_view *)
toggle_view(w) ==
    [w EXCEPT !.app.current_view =
        IF @ = "ProcessList" THEN "FilterManagement" ELSE "ProcessList"]

(* Variant: closing the popup keeps what was typed *)
toggle_add_filter_popup_keeping_input(w) ==
    [w EXCEPT !.app.show_add_filter_popup = ~@]

(* App::toggle_add_filter_popup *)
toggle_add_filter_popup(w) ==
    LET shown == ~w.app.show_add_filter_popup
    IN  [w EXCEPT !.app.show_add_filter_popup = shown,
                  !.app.add_filter_input = IF ~shown THEN <<>> ELSE @]

(* App::add_char_to_filter *)
add_char_to_filter(w, c) ==
    [w EXCEPT !.app.add_filter_input = Append(@, c)]

(* App::delete_char_from_filter: String::pop on an empty string is a no-op *)
delete_char_from_filter(w) ==
    [w EXCEPT !.app.add_filter_input =
        IF @ = <<>> THEN @ ELSE SubSeq(@, 1, Len(@) - 1)]

(* Variant: the name is added and saved, the list is not refreshed *)
save_filter_without_refresh(w, env) ==
    LET filter == trim(w.app.add_filter_input)
        added == add_filtered_process(w, filter, env)
    IN  IF filter # <<>>
        THEN IF added.err # "Ok" THEN added
             ELSE Ok(toggle_add_filter_popup(added.w))
        ELSE Ok(toggle_add_filter_popup(w))

(* Variant: an input that trims to nothing leaves the popup open *)
save_filter_keeping_popup(w, env) ==
    LET filter == trim(w.app.add_filter_input)
        added == add_filtered_process(w, filter, env)
        refreshed == refresh_processes(added.w, env)
    IN  IF filter # <<>>
        THEN IF added.err # "Ok" THEN added
             ELSE IF refreshed.err # "Ok" THEN refreshed
             ELSE Ok(toggle_add_filter_popup(refreshed.w))
        ELSE Ok(w)

(* App::save_filter *)
save_filter(w, env) ==
    LET filter == trim(w.app.add_filter_input)
        added == add_filtered_process(w, filter, env)
        refreshed == refresh_processes(added.w, env)
    IN  IF filter # <<>>
        THEN IF added.err # "Ok" THEN added
             ELSE IF refreshed.err # "Ok" THEN refreshed
             ELSE Ok(toggle_add_filter_popup(refreshed.w))
        ELSE Ok(toggle_add_filter_popup(w))

(* Variant: the name is added and saved, the list is not refreshed *)
filter_selected_process_without_refresh(w, env) ==
    IF is_some(w.app.selected_idx)
       /\ in_range(w.app.port_processes, unwrap(w.app.selected_idx))
    THEN LET process == w.app.port_processes[unwrap(w.app.selected_idx) + 1]
         IN  add_filtered_process(w, process.name, env)
    ELSE Ok(w)

(* App::filter_selected_process *)
filter_selected_process(w, env) ==
    IF is_some(w.app.selected_idx)
       /\ in_range(w.app.port_processes, unwrap(w.app.selected_idx))
    THEN LET process == w.app.port_processes[unwrap(w.app.selected_idx) + 1]
             added == add_filtered_process(w, process.name, env)
         IN  IF added.err # "Ok" THEN added
             ELSE refresh_processes(added.w, env)
    ELSE Ok(w)

(* App::previous *)
previous(w) ==
    IF w.app.current_view = "ProcessList"
    THEN IF is_some(w.app.selected_idx) /\ unwrap(w.app.selected_idx) > 0
         THEN [w EXCEPT !.app.selected_idx = Some(unwrap(@) - 1)]
         ELSE w
    ELSE IF is_some(w.app.filter_selected_idx)
            /\ unwrap(w.app.filter_selected_idx) > 0
         THEN [w EXCEPT !.app.filter_selected_idx = Some(unwrap(@) - 1)]
         ELSE w

(* App::next *)
next(w) ==
    IF w.app.current_view = "ProcessList"
    THEN IF is_some(w.app.selected_idx)
            /\ unwrap(w.app.selected_idx)
                 < saturating_sub(Len(w.app.port_processes), 1)
         THEN [w EXCEPT !.app.selected_idx = Some(unwrap(@) + 1)]
         ELSE w
    ELSE IF is_some(w.app.filter_selected_idx)
            /\ unwrap(w.app.filter_selected_idx)
                 < saturating_sub(Len(w.app.config.filtered_process_names), 1)
         THEN [w EXCEPT !.app.filter_selected_idx = Some(unwrap(@) + 1)]
         ELSE w

(* Variant: the index equal to the new length is not repaired *)
adjust_selection_strict(w, selected) ==
    IF w.app.port_processes = <<>>
    THEN [w EXCEPT !.app.selected_idx = None]
    ELSE IF selected > Len(w.app.port_processes)
    THEN [w EXCEPT !.app.selected_idx = Some(Len(w.app.port_processes) - 1)]
    ELSE w

(* "Adjust selection if needed" of kill_selected, ProcessList arm *)
adjust_selection(w, selected) ==
    IF w.app.port_processes = <<>>
    THEN [w EXCEPT !.app.selected_idx = None]
    ELSE IF selected >= Len(w.app.port_processes)
    THEN [w EXCEPT !.app.selected_idx = Some(Len(w.app.port_processes) - 1)]
    ELSE w

(* Variant: the filter index equal to the new length is not repaired *)
adjust_filter_selection_strict(w, selected) ==
    LET names == w.app.config.filtered_process_names
    IN  IF names = <<>>
        THEN [w EXCEPT !.app.filter_selected_idx = None]
        ELSE IF selected > Len(names)
        THEN [w EXCEPT !.app.filter_selected_idx = Some(Len(names) - 1)]
        ELSE w

(* "Adjust selection if needed" of kill_selected, FilterManagement arm *)
adjust_filter_selection(w, selected) ==
    LET names == w.app.config.filtered_process_names
    IN  IF names = <<>>
        THEN [w EXCEPT !.app.filter_selected_idx = None]
        ELSE IF selected >= Len(names)
        THEN [w EXCEPT !.app.filter_selected_idx = Some(Len(names) - 1)]
        ELSE w

(* Variant: the process of the first row is killed, whatever is selected *)
kill_selected_process_killing_first(w, env) ==
    IF is_some(w.app.selected_idx)
       /\ in_range(w.app.port_processes, unwrap(w.app.selected_idx))
    THEN LET selected == unwrap(w.app.selected_idx)
             process == w.app.port_processes[1]
             killed == kill_process(w, process.pid, env)
             refreshed == refresh_processes(killed.w, env)
         IN  IF killed.err # "Ok" THEN killed
             ELSE IF refreshed.err # "Ok" THEN refreshed
             ELSE Ok(adjust_selection(refreshed.w, selected))
    ELSE Ok(w)

(* Variant: the result of kill_process is dropped and the refresh runs *)
kill_selected_process_ignoring_failure(w, env) ==
    IF is_some(w.app.selected_idx)
       /\ in_range(w.app.port_processes, unwrap(w.app.selected_idx))
    THEN LET selected == unwrap(w.app.selected_idx)
             process == w.app.port_processes[selected + 1]
             killed == kill_process(w, process.pid, env)
             refreshed == refresh_processes(killed.w, env)
         IN  IF refreshed.err # "Ok" THEN refreshed
             ELSE Ok(adjust_selection(refreshed.w, selected))
    ELSE Ok(w)

(* App::kill_selected, View::ProcessList arm *)
kill_selected_process(w, env) ==
    IF is_some(w.app.selected_idx)
       /\ in_range(w.app.port_processes, unwrap(w.app.selected_idx))
    THEN LET selected == unwrap(w.app.selected_idx)
             process == w.app.port_processes[selected + 1]
             killed == kill_process(w, process.pid, env)
             refreshed == refresh_processes(killed.w, env)
         IN  IF killed.err # "Ok" THEN killed
             ELSE IF refreshed.err # "Ok" THEN refreshed
             ELSE Ok(adjust_selection(refreshed.w, selected))
    ELSE Ok(w)

(* App::kill_selected, View::FilterManagement arm *)
kill_selected_filter(w, env) ==
    IF is_some(w.app.filter_selected_idx)
       /\ in_range(w.app.config.filtered_process_names,
                   unwrap(w.app.filter_selected_idx))
    THEN LET selected == unwrap(w.app.filter_selected_idx)
             filter_name == w.app.config.filtered_process_names[selected + 1]
             removed == remove_filtered_process(w, filter_name, env)
         IN  IF removed.err # "Ok" THEN removed
             ELSE refresh_processes(
                      adjust_filter_selection(removed.w, selected), env)
    ELSE Ok(w)

(* App::kill_selected *)
kill_selected(w, env) ==
    IF w.app.current_view = "ProcessList"
    THEN kill_selected_process(w, env)
    ELSE kill_selected_filter(w, env)

----------------------------------------------------------------------------
(* The environment *)

BoundedSeq(S, n) == UNION {[1..k -> S] : k \in 0..n}

(* What one scan can meet: the run of lsof and the answers of ps *)
LsofOutcomes ==
    {[status |-> "ok", stdout |-> <<Header>> \o rows, ps |-> PsAnswers] :
         rows \in BoundedSeq(Universe, MaxScan)}
    \cup {[status |-> s, stdout |-> <<>>, ps |-> PsAnswers] :
              s \in {"unavailable", "nonzero", "bad_utf8"}}

Env(lsof, kill_ok, save_ok) ==
    [lsof |-> lsof, kill_ok |-> kill_ok, save_ok |-> save_ok]

NoRows == [status |-> "ok", stdout |-> <<Header>>, ps |-> PsAnswers]

(* A handler calls kill or save before it scans and returns at the first  *)
(* failure, so a failing kill or save is followed by no scan: one scan    *)
(* outcome stands for all of them there.                                  *)
ScanEnvs == {Env(lsof, TRUE, TRUE) : lsof \in LsofOutcomes}
KillEnvs == ScanEnvs \cup {Env(NoRows, FALSE, TRUE)}
SaveEnvs == ScanEnvs \cup {Env(NoRows, TRUE, FALSE)}

(* Characters the operator types into the popup: a key that is a command  *)
(* outside the popup, and a blank                                         *)
TypedChars == {"r", " "}

(* The Config that Config::load returns: the default written on first    *)
(* start, or the file's content, which may list no name                   *)
LoadedConfigs ==
    {default_config,
     [default_config EXCEPT !.filtered_process_names = <<>>]}

----------------------------------------------------------------------------
(* run_app *)

World == [app |-> app, disk |-> disk, log |-> <<>>]

Snapshot ==
    [sel |-> app.selected_idx, fsel |-> app.filter_selected_idx,
     input |-> app.add_filter_input]

(* Variant: the loop has no `if app.should_quit { break; }` *)
Step_without_break(name, r) ==
    /\ Len(r.w.app.config.filtered_process_names) <= MaxFilters
    /\ app' = r.w.app
    /\ disk' = r.w.disk
    /\ log' = r.w.log
    /\ intent' = name
    /\ outcome' = r.err
    /\ pre' = Snapshot
    /\ pc' = IF r.err # "Ok" THEN "exited" ELSE "loop"

(* One iteration of the loop: the handler's result r is applied; an Err   *)
(* leaves run_app through `?`, and should_quit leaves it through break.   *)
Step(name, r) ==
    /\ Len(r.w.app.config.filtered_process_names) <= MaxFilters
    /\ app' = r.w.app
    /\ disk' = r.w.disk
    /\ log' = r.w.log
    /\ intent' = name
    /\ outcome' = r.err
    /\ pre' = Snapshot
    /\ pc' = IF r.err # "Ok" \/ r.w.app.should_quit THEN "exited" ELSE "loop"

Init ==
    /\ \E cfg \in LoadedConfigs :
          /\ app = new_app(cfg)
          /\ disk = cfg
    /\ pc = "init"
    /\ intent = "None"
    /\ outcome = "Ok"
    /\ log = <<>>
    /\ pre = [sel |-> None, fsel |-> None, input |-> <<>>]

(* run_app: the initial refresh *)
InitialRefresh ==
    /\ pc = "init"
    /\ \E env \in ScanEnvs : Step("Start", refresh_processes(World, env))

(* Variant: the view's keys are matched whether or not the popup shows *)
AnyMode == pc = "loop"

Popup == pc = "loop" /\ app.show_add_filter_popup
NoPopup == pc = "loop" /\ ~app.show_add_filter_popup

(* KeyCode::Esc in the popup *)
CancelPopup ==
    /\ Popup
    /\ Step("CancelPopup", Ok(toggle_add_filter_popup(World)))

(* KeyCode::Char(c) in the popup *)
PopupTypeChar ==
    /\ Popup
    /\ Len(app.add_filter_input) < MaxInput
    /\ \E c \in TypedChars :
          Step("PopupTypeChar", Ok(add_char_to_filter(World, c)))

(* KeyCode::Backspace in the popup *)
PopupBackspace ==
    /\ Popup
    /\ Step("PopupBackspace", Ok(delete_char_from_filter(World)))

(* KeyCode::Enter in the popup *)
PopupSubmit ==
    /\ Popup
    /\ \E env \in SaveEnvs : Step("PopupSubmit", save_filter(World, env))

(* 'q' in either view *)
Quit ==
    /\ NoPopup
    /\ Step("Quit", Ok([World EXCEPT !.app.should_quit = TRUE]))

(* 'r' in the ProcessList view *)
Refresh ==
    /\ NoPopup
    /\ app.current_view = "ProcessList"
    /\ \E env \in ScanEnvs : Step("Refresh", refresh_processes(World, env))

(* 'f' in the ProcessList view *)
FilterSelectedProcess ==
    /\ NoPopup
    /\ app.current_view = "ProcessList"
    /\ \E env \in SaveEnvs :
          Step("FilterSelectedProcess", filter_selected_process(World, env))

(* 'F' in either view *)
ToggleView ==
    /\ NoPopup
    /\ Step("ToggleView", Ok(toggle_view(World)))

(* Up in either view *)
NavigateUp ==
    /\ NoPopup
    /\ Step("NavigateUp", Ok(previous(World)))

(* Down in either view *)
NavigateDown ==
    /\ NoPopup
    /\ Step("NavigateDown", Ok(next(World)))

(* Enter or 'k' in the ProcessList view *)
KillSelected ==
    /\ NoPopup
    /\ app.current_view = "ProcessList"
    /\ \E env \in KillEnvs : Step("KillSelected", kill_selected(World, env))

(* Enter or Delete in the FilterManagement view *)
RemoveSelectedFilter ==
    /\ NoPopup
    /\ app.current_view = "FilterManagement"
    /\ \E env \in SaveEnvs :
          Step("RemoveSelectedFilter", kill_selected(World, env))

(* 'a' in the FilterManagement view *)
OpenAddFilterPopup ==
    /\ NoPopup
    /\ app.current_view = "FilterManagement"
    /\ Step("OpenAddFilterPopup", Ok(toggle_add_filter_popup(World)))

(* A key with no arm in the active match (`_ => {}`): Up, Down or Delete  *)
(* in the popup; Backspace, Esc or a character that is no command outside *)
(* it.  No handler is called.                                             *)
IgnoredKey ==
    /\ pc = "loop"
    /\ Step("Ignored", Ok(World))

Next ==
    \/ InitialRefresh
    \/ CancelPopup
    \/ PopupTypeChar
    \/ PopupBackspace
    \/ PopupSubmit
    \/ Quit
    \/ Refresh
    \/ FilterSelectedProcess
    \/ ToggleView
    \/ NavigateUp
    \/ NavigateDown
    \/ KillSelected
    \/ RemoveSelectedFilter
    \/ OpenAddFilterPopup
    \/ IgnoredKey

Spec == Init /\ [][Next]_vars

----------------------------------------------------------------------------
(* The refresh transitions alone: Refresh, KillSelected and               *)
(* RemoveSelectedFilter, with the view toggle that reaches the latter.    *)

NextSelection ==
    \/ InitialRefresh
    \/ Refresh
    \/ KillSelected
    \/ RemoveSelectedFilter
    \/ ToggleView

SpecSelection == Init /\ [][NextSelection]_vars

----------------------------------------------------------------------------
(* The scanner's sort and the filter of refresh_processes on their own:   *)
(* one refresh of a fresh App, over configurations and lsof rows that     *)
(* meet the port range at its ends and tie on the port.                   *)

FilterConfigs ==
    {default_config,
     [default_config EXCEPT !.filtered_process_names = <<>>],
     [default_config EXCEPT !.filtered_process_names = <<Browser>>],
     [min_port |-> 3000, max_port |-> 3000,
      filtered_process_names |-> <<browser>>]}

InitFilter ==
    /\ \E cfg \in FilterConfigs :
          /\ app = new_app(cfg)
          /\ disk = cfg
    /\ pc = "init"
    /\ intent = "None"
    /\ outcome = "Ok"
    /\ log = <<>>
    /\ pre = [sel |-> None, fsel |-> None, input |-> <<>>]

ScanAndFilter ==
    /\ pc = "init"
    /\ \E rows \in BoundedSeq(FilterUniverse, MaxRaw) :
          Step("Start",
               refresh_processes(
                   World,
                   Env([status |-> "ok", stdout |-> <<Header>> \o rows,
                        ps |-> PsAnswers], TRUE, TRUE)))

NextFilter == ScanAndFilter

SpecFilter == InitFilter /\ [][NextFilter]_vars

----------------------------------------------------------------------------
(* The scanner on its own: the initial refresh over what lsof and ps may  *)
(* print, well-formed rows and others.                                    *)

ScanOutcomes ==
    {[status |-> "ok", stdout |-> <<Header>> \o rows, ps |-> ps] :
         rows \in BoundedSeq(ScanLines, MaxRaw), ps \in PsChoices}
    \cup {[status |-> st, stdout |-> <<>>, ps |-> PsAnswers] :
              st \in {"unavailable", "nonzero", "bad_utf8"}}

Scan ==
    /\ pc = "init"
    /\ \E lsof \in ScanOutcomes :
          Step("Start", refresh_processes(World, Env(lsof, TRUE, TRUE)))

NextScan == Scan

SpecScan == Init /\ [][NextScan]_vars

----------------------------------------------------------------------------
(* Observations of the last handler *)

Range(v) == {v[k] : k \in 1..Len(v)}

Count(v, x) == Cardinality({k \in 1..Len(v) : v[k] = x})

Without(v, x) == LET other(y) == y # x IN SelectSeq(v, other)

Made(op, ok) == \E k \in 1..Len(log) : log[k].op = op /\ log[k].ok = ok

Scanned == Made("scan", TRUE)

(* The rows of the last handler's successful scan, in discovery order *)
ScanRows ==
    LET k == CHOOSE k \in 1..Len(log) : log[k].op = "scan" /\ log[k].ok
    IN  log[k].arg

Names == app.config.filtered_process_names

(* f occurs in s: s is some prefix, then f, then some suffix *)
IsSubstring(f, s) ==
    \E i \in 0..Len(s), j \in 0..Len(s) : i <= j /\ SubSeq(s, i + 1, j) = f

(* The selection invariant of one list *)
SelectionValid(sel, len) ==
    IF len = 0 THEN sel = None ELSE is_some(sel) /\ unwrap(sel) < len

(* Every listed binding comes from the last scan and passes the filter *)
ListedFromScan ==
    /\ Scanned
    /\ \A p \in Range(app.port_processes) :
          /\ p \in Range(ScanRows)
          /\ p.port >= app.config.min_port /\ p.port <= app.config.max_port
          /\ \A f \in Range(Names) : ~IsSubstring(f, p.name)

----------------------------------------------------------------------------
(* Selection *)

(* C1: after any sequence of Refresh, KillSelected and                    *)
(* RemoveSelectedFilter transitions, each selection is None iff its list  *)
(* is empty and is otherwise an index below the list's length.            *)
C1_SelectionInvariant ==
    (pc # "init" /\ outcome = "Ok") =>
        /\ SelectionValid(app.selected_idx, Len(app.port_processes))
        /\ SelectionValid(app.filter_selected_idx, Len(Names))

(* C2: a KillSelected in the ProcessList view whose terminator fails      *)
(* returns KillFailure, scans nothing and leaves the App (list, both      *)
(* selections, view, popup, Config) and the config file as they were.     *)
C2_KillFailureLeavesState ==
    [][(intent' = "KillSelected" /\ Made("kill", FALSE)') =>
          /\ outcome' = "KillFailure"
          /\ ~Made("scan", TRUE)' /\ ~Made("scan", FALSE)'
          /\ app' = app
          /\ disk' = disk]_vars

C2_Witness ==
    /\ intent = "KillSelected"
    /\ outcome = "KillFailure"
    /\ Made("kill", FALSE)
    /\ app.port_processes # <<>>

(* C3: no ScanFailure, KillFailure or PersistenceFailure raised while     *)
(* processing an intent ends the loop: run_app is left only by Quit.      *)
C3_LoopEndsOnlyByQuit ==
    (pc = "exited" /\ intent # "Start") =>
        (intent = "Quit" /\ app.should_quit /\ outcome = "Ok")

(* C4: after a KillSelected whose kill and refresh both succeed, the list *)
(* comes from the new scan and the process selection is None if the list  *)
(* is empty, the last index if the previous index i is no longer in       *)
(* range, and i otherwise.                                                *)
C4_KillRepairsSelection ==
    (intent = "KillSelected" /\ outcome = "Ok" /\ Made("kill", TRUE)) =>
        /\ ListedFromScan
        /\ app.selected_idx =
              IF app.port_processes = <<>> THEN None
              ELSE IF unwrap(pre.sel) >= Len(app.port_processes)
              THEN Some(Len(app.port_processes) - 1)
              ELSE pre.sel

C4_Witness ==
    /\ intent = "KillSelected" /\ outcome = "Ok" /\ Made("kill", TRUE)
    /\ app.port_processes # <<>>
    /\ unwrap(pre.sel) = Len(app.port_processes)
    /\ app.selected_idx = Some(Len(app.port_processes) - 1)

(* C5: after a successful Refresh intent that leaves the list empty the   *)
(* process selection is None.                                             *)
C5_EmptyRefreshClearsSelection ==
    (intent = "Refresh" /\ outcome = "Ok" /\ app.port_processes = <<>>) =>
        app.selected_idx = None

(* C6: a successful Refresh intent keeps a selection Some(i) whose i is   *)
(* still below the length of the new list.                                *)
C6_RefreshKeepsSelection ==
    (/\ intent = "Refresh" /\ outcome = "Ok"
     /\ is_some(pre.sel)
     /\ unwrap(pre.sel) < Len(app.port_processes)) =>
        app.selected_idx = pre.sel

C6_Witness ==
    /\ intent = "Refresh" /\ outcome = "Ok"
    /\ pre.sel = Some(1)
    /\ Len(app.port_processes) = 2
    /\ app.selected_idx = Some(1)

----------------------------------------------------------------------------
(* Filtering and sorting *)

(* C7: after a successful refresh under a Config with min_port <=         *)
(* max_port, a scanned binding is listed iff its port is within           *)
(* [min_port, max_port] and no filtered name occurs in its process name,  *)
(* case-sensitively; nothing else is listed.                              *)
C7_FilterRetainsIff ==
    (/\ pc # "init" /\ outcome = "Ok" /\ Scanned
     /\ app.config.min_port <= app.config.max_port) =>
        /\ Range(app.port_processes) \subseteq Range(ScanRows)
        /\ \A b \in Range(ScanRows) :
              b \in Range(app.port_processes) <=>
                  /\ app.config.min_port <= b.port
                  /\ b.port <= app.config.max_port
                  /\ \A f \in Range(Names) : ~IsSubstring(f, b.name)

C7_Witness ==
    /\ pc # "init" /\ outcome = "Ok" /\ Scanned
    /\ Browser \in Range(Names)
    /\ \E h, b \in Range(ScanRows) :
          /\ h.name = HelperBrowserX /\ b.name = browser
          /\ h \notin Range(app.port_processes)
          /\ b \in Range(app.port_processes)

(* C8: after a successful refresh the list is ascending by port, and the  *)
(* listed bindings of one port are in the order the scan found them.      *)
C8_SortedStable ==
    (pc # "init" /\ outcome = "Ok" /\ Scanned) =>
        /\ \A i, j \in 1..Len(app.port_processes) :
              i < j => app.port_processes[i].port <= app.port_processes[j].port
        /\ \A q \in Range(app.port_processes) :
              LET at_port(r) == r.port = q.port
                  listed_at_port(r) ==
                      r.port = q.port /\ r \in Range(app.port_processes)
              IN  SelectSeq(app.port_processes, at_port)
                      = SelectSeq(ScanRows, listed_at_port)

C8_Witness ==
    /\ pc # "init" /\ outcome = "Ok" /\ Scanned
    /\ ScanRows # app.port_processes
    /\ \E i \in 1..(Len(app.port_processes) - 1) :
          /\ app.port_processes[i].port = app.port_processes[i + 1].port
          /\ app.port_processes[i].pid > app.port_processes[i + 1].pid

----------------------------------------------------------------------------
(* Adding filters *)

(* What an add of the name t leaves: t once, the other names as before *)
AddedOnce(t) ==
    /\ Count(Names', t) = 1
    /\ Without(Names', t) = Without(Names, t)

NoDuplicates == \A t \in Range(Names) : Count(Names, t) = 1

(* C9: on a filter list without duplicates, a PopupSubmit of an input     *)
(* that trims to a name, or a FilterSelectedProcess on a listed process,  *)
(* leaves that name in the list exactly once, however often it is         *)
(* repeated, with the other entries and their order as they were.         *)
C9_AddFilterIdempotent ==
    [][NoDuplicates =>
          /\ (intent' = "PopupSubmit" /\ trim(app.add_filter_input) # <<>>)
                => AddedOnce(trim(app.add_filter_input))
          /\ (/\ intent' = "FilterSelectedProcess"
              /\ is_some(app.selected_idx)
              /\ unwrap(app.selected_idx) < Len(app.port_processes))
                => AddedOnce(
                       app.port_processes[unwrap(app.selected_idx) + 1].name)
      ]_vars

(* A submit of a name that was in the list already *)
C9_Witness ==
    /\ intent = "PopupSubmit" /\ outcome = "Ok"
    /\ trim(pre.input) # <<>>
    /\ ~Made("save", TRUE) /\ Scanned
    /\ Count(Names, trim(pre.input)) = 1

----------------------------------------------------------------------------
(* Removing a filter, filtering the selected process *)

(* C11: a RemoveSelectedFilter that returns Ok with the filter selection  *)
(* Some(i), i in range, removes the selected name from the list, leaves   *)
(* the filter selection None if the list is now empty, the last index if  *)
(* i is no longer in range and i otherwise, and re-derives the process    *)
(* list from a new scan under the shortened filter list.                  *)
C11_RemoveRepairsFilterSelection ==
    [][(/\ intent' = "RemoveSelectedFilter" /\ outcome' = "Ok"
        /\ is_some(app.filter_selected_idx)
        /\ unwrap(app.filter_selected_idx) < Len(Names)) =>
          LET i == unwrap(app.filter_selected_idx)
              name == Names[i + 1]
          IN  /\ name \notin Range(Names')
              /\ Names' = Without(Names, name)
              /\ app'.filter_selected_idx =
                    IF Names' = <<>> THEN None
                    ELSE IF i >= Len(Names') THEN Some(Len(Names') - 1)
                    ELSE Some(i)
              /\ Made("save", TRUE)'
              /\ ListedFromScan'
      ]_vars

(* The last of two names was selected and removed *)
C11_Witness ==
    /\ intent = "RemoveSelectedFilter" /\ outcome = "Ok"
    /\ pre.fsel = Some(1)
    /\ Len(Names) = 1
    /\ app.filter_selected_idx = Some(0)
    /\ Scanned

(* C12: a FilterSelectedProcess that returns Ok with a selection in range *)
(* leaves the selected process name in the filter list (pushed only if it *)
(* was absent), the Config persisted, and the process list re-derived     *)
(* from a new scan, with no binding whose name contains that name.        *)
C12_FilterSelectedProcess ==
    [][(/\ intent' = "FilterSelectedProcess" /\ outcome' = "Ok"
        /\ is_some(app.selected_idx)
        /\ unwrap(app.selected_idx) < Len(app.port_processes)) =>
          LET name == app.port_processes[unwrap(app.selected_idx) + 1].name
          IN  /\ Count(Names', name) = 1
              /\ Names' = IF name \in Range(Names) THEN Names
                          ELSE Append(Names, name)
              /\ disk' = app'.config
              /\ ListedFromScan'
              /\ \A p \in Range(app'.port_processes) :
                    ~IsSubstring(name, p.name)
      ]_vars

(* The scan still reports a process of the name just filtered, and the    *)
(* list does not show it                                                  *)
C12_Witness ==
    /\ intent = "FilterSelectedProcess" /\ outcome = "Ok"
    /\ Made("save", TRUE) /\ Scanned
    /\ Names # <<>>
    /\ \E r \in Range(ScanRows) :
          /\ r.name = Names[Len(Names)]
          /\ r \notin Range(app.port_processes)

----------------------------------------------------------------------------
(* Failures *)

(* C13: a handler whose scan fails returns ScanFailure and its refresh    *)
(* changes nothing: the process list and the process selection are the    *)
(* ones held before, the filter selection is the one held before the      *)
(* refresh (RemoveSelectedFilter repairs it before it scans), and a       *)
(* Refresh intent or the initial refresh leaves the whole App as it was.  *)
C13_ScanFailureKeepsList ==
    [][Made("scan", FALSE)' =>
          /\ outcome' = "ScanFailure"
          /\ app'.port_processes = app.port_processes
          /\ app'.selected_idx = app.selected_idx
          /\ intent' # "RemoveSelectedFilter" =>
                app'.filter_selected_idx = app.filter_selected_idx
          /\ intent' \in {"Refresh", "Start"} => app' = app
      ]_vars

C13_Witness ==
    /\ intent = "Refresh" /\ outcome = "ScanFailure"
    /\ Made("scan", FALSE)
    /\ app.port_processes # <<>>
    /\ app.selected_idx = pre.sel

(* C14: every handler that changes the filter list attempts a save of     *)
(* the changed list; a failed save returns PersistenceFailure, and the    *)
(* in-memory list then keeps the change while the file keeps the old one. *)
C14_FilterChangeIsPersisted ==
    [][/\ Names' # Names =>
             \E k \in 1..Len(log') :
                 log'[k].op = "save" /\ log'[k].arg = Names'
       /\ Made("save", FALSE)' =>
             /\ outcome' = "PersistenceFailure"
             /\ Names' # Names
             /\ disk' = disk
             /\ disk'.filtered_process_names # Names'
       /\ Made("save", TRUE)' => disk'.filtered_process_names = Names'
      ]_vars

C14_Witness ==
    /\ outcome = "PersistenceFailure"
    /\ Made("save", FALSE)
    /\ disk.filtered_process_names # Names
    /\ intent \in {"PopupSubmit", "FilterSelectedProcess"}

----------------------------------------------------------------------------
(* Consistency after a filter is added *)

(* C15: after every FilterSelectedProcess and PopupSubmit that returns Ok *)
(* the process selection is None iff the process list is empty and is     *)
(* otherwise an index below its length.                                   *)
C15_SelectionValidAfterAdd ==
    [][(/\ intent' \in {"FilterSelectedProcess", "PopupSubmit"}
        /\ outcome' = "Ok"
        /\ SelectionValid(app.selected_idx, Len(app.port_processes))) =>
          SelectionValid(app'.selected_idx, Len(app'.port_processes))
      ]_vars

(* Every listed binding passes the filter of the in-memory Config *)
ListPassesFilter ==
    \A p \in Range(app.port_processes) :
        /\ app.config.min_port <= p.port /\ p.port <= app.config.max_port
        /\ \A f \in Range(Names) : ~IsSubstring(f, p.name)

----------------------------------------------------------------------------
(* Navigation and views *)

(* The selection and the length of the list of the active view *)
ActiveSelection(a) ==
    IF a.current_view = "ProcessList"
    THEN a.selected_idx ELSE a.filter_selected_idx

ActiveLength(a) ==
    IF a.current_view = "ProcessList"
    THEN Len(a.port_processes)
    ELSE Len(a.config.filtered_process_names)

(* The App with both selections blanked: what navigation must not touch, *)
(* together with the selection of the other view                         *)
OtherSelectionKept ==
    IF app.current_view = "ProcessList"
    THEN app' = [app EXCEPT !.selected_idx = app'.selected_idx]
    ELSE app' = [app EXCEPT !.filter_selected_idx = app'.filter_selected_idx]

(* C17: NavigateUp and NavigateDown change only the selection of the      *)
(* active view: Up decrements it unless it is 0, Down increments it       *)
(* unless it is length-1, None stays None, and the resulting index is     *)
(* within [0, length-1].                                                  *)
C17_NavigationClamped ==
    [][intent' \in {"NavigateUp", "NavigateDown"} =>
          LET sel == ActiveSelection(app)
              after == ActiveSelection(app')
              len == ActiveLength(app)
          IN  /\ OtherSelectionKept
              /\ disk' = disk /\ log' = <<>> /\ outcome' = "Ok"
              /\ is_none(sel) => is_none(after)
              /\ (is_some(sel) /\ intent' = "NavigateUp") =>
                    after = IF unwrap(sel) = 0 THEN sel
                            ELSE Some(unwrap(sel) - 1)
              /\ (is_some(sel) /\ intent' = "NavigateDown") =>
                    after = IF unwrap(sel) = len - 1 THEN sel
                            ELSE Some(unwrap(sel) + 1)
              /\ is_some(after) =>
                    (0 <= unwrap(after) /\ unwrap(after) <= len - 1)
      ]_vars

(* C18: ToggleView moves the view to the other of ProcessList and         *)
(* FilterManagement, so that a second toggle restores it, and leaves both *)
(* selections, the list, the Config, the popup and the config file as     *)
(* they were.                                                             *)
C18_ToggleViewFlipsOnly ==
    [][intent' = "ToggleView" =>
          /\ app'.current_view =
                IF app.current_view = "ProcessList"
                THEN "FilterManagement" ELSE "ProcessList"
          /\ app' = [app EXCEPT !.current_view = app'.current_view]
          /\ disk' = disk /\ log' = <<>> /\ outcome' = "Ok"
      ]_vars

(* Back in the ProcessList view after a toggle, with a list and filters *)
C18_Witness ==
    /\ intent = "ToggleView"
    /\ app.current_view = "ProcessList"
    /\ app.port_processes # <<>>
    /\ is_some(app.filter_selected_idx)

----------------------------------------------------------------------------
(* The popup *)

(* C19: while the popup shows, a key is handled by the popup alone: only  *)
(* PopupSubmit changes the view, a selection, the process list, the       *)
(* Config, the quit flag or the config file, and no scan or kill is made  *)
(* by any other key; while no popup shows, no key changes the input       *)
(* buffer.                                                                *)
C19_PopupCapturesInput ==
    [][/\ (pc = "loop" /\ app.show_add_filter_popup
           /\ intent' # "PopupSubmit") =>
             /\ intent' \in {"CancelPopup", "PopupTypeChar",
                             "PopupBackspace", "Ignored"}
             /\ app'.current_view = app.current_view
             /\ app'.selected_idx = app.selected_idx
             /\ app'.filter_selected_idx = app.filter_selected_idx
             /\ app'.port_processes = app.port_processes
             /\ app'.config = app.config
             /\ app'.should_quit = app.should_quit
             /\ disk' = disk /\ log' = <<>>
       /\ (pc = "loop" /\ ~app.show_add_filter_popup) =>
             app'.add_filter_input = app.add_filter_input
      ]_vars

(* 'r', the Refresh key of the list view, typed into the popup *)
C19_Witness ==
    /\ intent = "PopupTypeChar"
    /\ app.show_add_filter_popup
    /\ app.add_filter_input = <<"r">>
    /\ log = <<>>
    /\ app.port_processes # <<>>

(* C20: the input buffer is empty right after OpenAddFilterPopup and      *)
(* right after CancelPopup, and in every state in which no popup shows.   *)
C20_BufferEmptyWhenClosed ==
    /\ ~app.show_add_filter_popup => app.add_filter_input = <<>>
    /\ intent \in {"OpenAddFilterPopup", "CancelPopup"} =>
          app.add_filter_input = <<>>
    /\ intent = "OpenAddFilterPopup" => app.show_add_filter_popup
    /\ intent = "CancelPopup" => ~app.show_add_filter_popup

(* Typed input was cancelled *)
C20_Witness ==
    /\ intent = "CancelPopup"
    /\ pre.input # <<>>
    /\ ~app.show_add_filter_popup
    /\ app.add_filter_input = <<>>

----------------------------------------------------------------------------
(* Quit *)

(* C21: a Quit is accepted only while no popup shows, in either view; it  *)
(* sets the quit flag and nothing else, calls neither the scanner nor the *)
(* terminator nor the config file, and ends the loop in that iteration:   *)
(* no step is taken from a state whose quit flag is set or whose loop has *)
(* ended, so no later intent changes the App, the Config or the file.     *)
C21_QuitIsTerminal ==
    [][/\ ~app.should_quit
       /\ pc # "exited"
       /\ intent' = "Quit" =>
             /\ ~app.show_add_filter_popup
             /\ app' = [app EXCEPT !.should_quit = TRUE]
             /\ disk' = disk
             /\ log' = <<>>
             /\ outcome' = "Ok"
             /\ pc' = "exited"
       /\ app'.should_quit => intent' = "Quit"
      ]_vars

(* Quit accepted in the FilterManagement view with a process listed *)
C21_Witness ==
    /\ intent = "Quit"
    /\ pc = "exited"
    /\ app.should_quit
    /\ app.current_view = "FilterManagement"
    /\ app.port_processes # <<>>

----------------------------------------------------------------------------
(* The initial state *)

(* C22: until the first intent is processed the session shows the         *)
(* ProcessList view with no popup and an empty input buffer; after the    *)
(* initial refresh each selection is Some(0) if its list holds an element *)
(* and None if it holds none; and any handler whose refresh succeeds      *)
(* turns a selection that was None into Some(0) when its list holds an    *)
(* element.                                                               *)
C22_InitialState ==
    /\ (pc = "init" \/ intent = "Start") =>
          /\ app.current_view = "ProcessList"
          /\ ~app.show_add_filter_popup
          /\ app.add_filter_input = <<>>
          /\ ~app.should_quit
    /\ pc = "init" =>
          /\ app.selected_idx = None
          /\ app.filter_selected_idx = None
          /\ app.port_processes = <<>>
    /\ (intent = "Start" /\ outcome = "Ok") =>
          /\ app.selected_idx =
                IF app.port_processes # <<>> THEN Some(0) ELSE None
          /\ app.filter_selected_idx =
                IF Names # <<>> THEN Some(0) ELSE None
    /\ (outcome = "Ok" /\ Scanned) =>
          /\ (pre.sel = None /\ app.port_processes # <<>>) =>
                app.selected_idx = Some(0)
          /\ (pre.fsel = None /\ Names # <<>>) =>
                app.filter_selected_idx = Some(0)

(* The initial refresh of a Config that lists no name found a process *)
C22_Witness ==
    /\ intent = "Start"
    /\ outcome = "Ok"
    /\ Names = <<>>
    /\ app.filter_selected_idx = None
    /\ app.port_processes # <<>>
    /\ app.selected_idx = Some(0)

----------------------------------------------------------------------------
(* The scanner *)

(* What the commands of the last handler's scan printed *)
Printed ==
    LET k == CHOOSE k \in 1..Len(log) : log[k].op = "lsof" IN log[k].arg

(* The fields of a line: its maximal runs of characters that are not      *)
(* whitespace, as pairs of first and last index                           *)
FieldsOf[line \in Lines] ==
    {f \in (1..Len(line)) \X (1..Len(line)) :
        /\ f[1] <= f[2]
        /\ \A k \in f[1]..f[2] : line[k] \notin Whitespace
        /\ f[1] = 1 \/ line[f[1] - 1] \in Whitespace
        /\ f[2] = Len(line) \/ line[f[2] + 1] \in Whitespace}

(* The n-th field of a line that has one *)
FieldText(line, n) ==
    LET f == CHOOSE f \in FieldsOf[line] :
                 Cardinality({g \in FieldsOf[line] : g[1] < f[1]}) = n - 1
    IN  SubSeq(line, f[1], f[2])

(* The text after the last ':' of t, all of t if it has none *)
AfterLastColon(t) ==
    LET colons == {k \in 1..Len(t) : t[k] = ":"}
    IN  IF colons = {} THEN t
        ELSE SubSeq(t, (CHOOSE k \in colons : \A c \in colons : c <= k) + 1,
                    Len(t))

IsDecimal(t) == t # <<>> /\ \A k \in 1..Len(t) : t[k] \in Range(Digits)

(* The number a decimal numeral of at most nine digits denotes *)
DecimalValue(t) ==
    LET ten[k \in 0..8] == IF k = 0 THEN 1 ELSE 10 * ten[k - 1]
        digit(c) == CHOOSE d \in 0..9 : Digits[d + 1] = c
        upto[k \in 0..Len(t)] ==
            IF k = 0 THEN 0
            ELSE upto[k - 1] + digit(t[k]) * ten[Len(t) - k]
    IN  upto[Len(t)]

(* A row that parses into (pid: integer, port: integer in 0..65535) *)
WellFormed[line \in Lines] ==
    /\ Cardinality(FieldsOf[line]) >= 9
    /\ IsDecimal(FieldText(line, 2))
    /\ Len(FieldText(line, 2)) <= 9
    /\ LET port == AfterLastColon(FieldText(line, 9))
       IN  IsDecimal(port) /\ Len(port) <= 9 /\ DecimalValue(port) <= 65535

(* s without the whitespace at its ends *)
Stripped(s) ==
    CHOOSE c \in {SubSeq(s, i, j) : i \in 1..(Len(s) + 1), j \in 0..Len(s)} :
        /\ \E l, r \in BoundedSeq(Whitespace, Len(s)) : s = l \o c \o r
        /\ c = <<>> \/ (c[1] \notin Whitespace /\ c[Len(c)] \notin Whitespace)

(* The binding of a well-formed row; no binding for any other *)
BindingOf[line \in Lines, ps \in PsChoices] ==
    IF WellFormed[line]
    THEN LET pid == DecimalValue(FieldText(line, 2))
         IN  <<PortProcess(
                   pid, FieldText(line, 1),
                   DecimalValue(AfterLastColon(FieldText(line, 9))),
                   IF pid \in ps.failing THEN <<>> ELSE Stripped(ps.stdout))>>
    ELSE <<>>

(* A row of nine fields or more whose PID field is no integer *)
BadPid[line \in Lines] ==
    /\ Cardinality(FieldsOf[line]) >= 9
    /\ ~IsDecimal(FieldText(line, 2))

(* A row of nine fields or more whose port is an integer above 65535 *)
BadPort[line \in Lines] ==
    /\ Cardinality(FieldsOf[line]) >= 9
    /\ IsDecimal(AfterLastColon(FieldText(line, 9)))
    /\ DecimalValue(AfterLastColon(FieldText(line, 9))) > 65535

(* C23: whenever lsof ran and printed, the scan succeeds whatever the     *)
(* rows are, and what it finds is one binding per well-formed row, in the *)
(* order of the rows: a row whose PID field is no integer, whose text     *)
(* after the last ':' of the address field is no integer in 0..65535, or  *)
(* which has no address field, contributes nothing; the binding of a      *)
(* process whose ps lookup failed has the empty command.                  *)
C23_MalformedRowsSkipped ==
    (pc # "init" /\ intent = "Start" /\ Made("lsof", TRUE)) =>
        LET rows == Tail(Printed.stdout)
            well_formed(line) == WellFormed[line]
            good == SelectSeq(rows, well_formed)
        IN  /\ outcome = "Ok"
            /\ Scanned
            /\ ScanRows =
                  [k \in 1..Len(good) |-> BindingOf[good[k], Printed.ps][1]]
            /\ \A b \in Range(ScanRows) :
                  b.pid \in Printed.ps.failing => b.command = <<>>

(* Three rows: a PID that is no integer, a port above 65535, and a        *)
(* well-formed row of a process whose ps lookup failed                    *)
C23_Witness ==
    /\ pc # "init" /\ intent = "Start" /\ outcome = "Ok"
    /\ Made("lsof", TRUE)
    /\ Len(Printed.stdout) = 4
    /\ \E i, j \in 2..4 :
          BadPid[Printed.stdout[i]] /\ BadPort[Printed.stdout[j]]
    /\ Len(ScanRows) = 1
    /\ ScanRows[1].pid \in Printed.ps.failing
    /\ ScanRows[1].command = <<>>

----------------------------------------------------------------------------
(* The terminator *)

(* The calls of kill_process in a log *)
Kills(l) == {k \in 1..Len(l) : l[k].op = "kill"}

(* The process selection points at a row of the list *)
RowSelected ==
    /\ is_some(app.selected_idx)
    /\ unwrap(app.selected_idx) < Len(app.port_processes)

(* C24: a step calls kill_process only when it processes KillSelected in  *)
(* the ProcessList view with no popup and a selection Some(i) with i      *)
(* below the length of the list, and then it calls it once, with the PID  *)
(* of row i; such a step always makes that call; and no KillSelected      *)
(* changes the filter-name list, in memory or in the file.                *)
C24_KillOnlySelected ==
    [][/\ Kills(log') # {} =>
             /\ intent' = "KillSelected"
             /\ app.current_view = "ProcessList"
             /\ ~app.show_add_filter_popup
             /\ RowSelected
             /\ Cardinality(Kills(log')) = 1
             /\ \A k \in Kills(log') :
                   log'[k].arg =
                       <<app.port_processes[unwrap(app.selected_idx) + 1].pid>>
       /\ (intent' = "KillSelected" /\ RowSelected) => Kills(log') # {}
       /\ intent' = "KillSelected" =>
             /\ Names' = Names
             /\ disk' = disk
       /\ (intent' = "RemoveSelectedFilter") =>
             app.current_view = "FilterManagement"
      ]_vars

(* The second of two rows was selected and its process killed *)
C24_Witness ==
    /\ intent = "KillSelected" /\ outcome = "Ok"
    /\ pre.sel = Some(1)
    /\ Cardinality(Kills(log)) = 1
    /\ \E k \in Kills(log) : log[k].arg = <<2>> /\ log[k].ok

====
